---------------------------- MODULE Spec2Model ----------------------------
(***************************************************************************)
(* A model of the morpho-syntax lexicon pipeline (hw1):                    *)
(*   from_conllu         (file.py)        corpus normalizer                *)
(*   get_inflections     (inflections.py) inflection aggregator            *)
(*   analyze_inflections (greek.py)       stem and class inference         *)
(*   get_greek_lexicon   (greek.py) and to_txt (file.py)  lexicon emitter  *)
(*                                                                         *)
(* A Python str is the sequence of its code points; Str("...") is the str  *)
(* of a literal.  The str methods the code calls (split, strip, lower,     *)
(* endswith, join, ...) are operators that compute code point by code      *)
(* point.  Python dicts keep insertion order, so a dict is a sequence of   *)
(* [key, val] records with distinct keys.  List indices are 0-based as in  *)
(* the code: lines[i] of the code is lines[i + 1] here.                    *)
(***************************************************************************)
EXTENDS Integers, Sequences, FiniteSets, TLC

VARIABLES
    pc,           \* position of the running function
    corpus,       \* from_conllu: the raw lines read from the .conllu file
    c,            \* from_conllu: number of raw lines consumed by the for loop
    txt,          \* from_conllu: the cleaned lines
    kept,         \* from_conllu: history, indices of the raw lines behind txt
    lines,        \* get_inflections: the lines read from the tagged file
    i,            \* get_inflections: index of the line being processed
    inflections,  \* get_inflections: the lemma table being built
    contraction,  \* get_inflections: history, the last update_contraction call
    lemma,        \* analyze_inflections: argument
    words,        \* analyze_inflections: argument
    pos,          \* analyze_inflections: argument
    stem,         \* analyze_inflections: local, then result
    class_tag,    \* analyze_inflections: local, then result
    dict,         \* get_greek_lexicon: the table loaded from the JSON file
    d,            \* get_greek_lexicon: number of table entries consumed
    lexicon,      \* get_greek_lexicon: the rows built so far
    written       \* to_txt: the lines written to the lexicon file

vars == <<pc, corpus, c, txt, kept, lines, i, inflections, contraction,
          lemma, words, pos, stem, class_tag, dict, d, lexicon, written>>

normVars == <<corpus, c, txt, kept>>
aggVars == <<lines, i, inflections, contraction>>
stemVars == <<lemma, words, pos, stem, class_tag>>
lexVars == <<dict, d, lexicon, written>>

-----------------------------------------------------------------------------
(* Bounds of the model.                                                    *)

MaxCorpus == 3    \* raw corpus lines in a from_conllu run
MaxLines == 3     \* tagged lines in a get_inflections run
MaxStemLen == 4   \* characters of the generated lemma stems
MaxForms == 2     \* surface forms recorded under one lemma
MaxEntries == 3   \* entries of a table handed to get_greek_lexicon

-----------------------------------------------------------------------------
(* Python str: code points and methods.                                    *)

Range(f) == {f[n] : n \in DOMAIN f}

\* U+0020 .. U+005F and U+0061 .. U+007E
AsciiBlock ==
    " !\"#$%&'()*+,-./0123456789:;<=>?@ABCDEFGHIJKLMNOPQRSTUVWXYZ[\\]^_"
LowerBlock == "abcdefghijklmnopqrstuvwxyz{|}~"
\* U+0386 .. U+03CE ("?" marks an unassigned code point)
GreekBlock ==
    "Ά·ΈΉΊ?Ό?ΎΏΐΑΒΓΔΕΖΗΘΙΚΛΜΝΞΟΠΡ?ΣΤΥΦΧΨΩΪΫάέήίΰαβγδεζηθικλμνξοπρςστυφχψωϊϋόύώ"

\* The characters of a block, one by one
Chars(block) == [n \in 1..Len(block) |-> SubSeq(block, n, n)]
AsciiChars == Chars(AsciiBlock)
LowerAsciiChars == Chars(LowerBlock)
GreekChars == Chars(GreekBlock)

IndexIn(chars, ch) ==
    CHOOSE n \in 1..Len(chars) :
        chars[n] = ch /\ \A m \in 1..(n - 1) : chars[m] # ch

\* ord(ch) of a one-character literal
Ch(ch) ==
    IF ch = "\t" THEN 9
    ELSE IF ch = "\n" THEN 10
    ELSE IF \E n \in 1..Len(AsciiChars) : AsciiChars[n] = ch
    THEN 31 + IndexIn(AsciiChars, ch)
    ELSE IF \E n \in 1..Len(LowerAsciiChars) : LowerAsciiChars[n] = ch
    THEN 96 + IndexIn(LowerAsciiChars, ch)
    ELSE 901 + IndexIn(GreekChars, ch)

\* the str of a literal
Str(literal) == [n \in 1..Len(literal) |-> Ch(SubSeq(literal, n, n))]

\* a < b for Python strings: code point by code point
RECURSIVE StrLess(_, _)
StrLess(a, b) ==
    IF b = <<>> THEN FALSE
    ELSE IF a = <<>> THEN TRUE
    ELSE IF a[1] = b[1] THEN StrLess(Tail(a), Tail(b))
    ELSE a[1] < b[1]

StrLeq(a, b) == a = b \/ StrLess(a, b)

Whitespace == Range(Str(" \t\n"))

\* s.strip()
RECURSIVE LStrip(_)
LStrip(s) ==
    IF s # <<>> /\ s[1] \in Whitespace THEN LStrip(Tail(s)) ELSE s

RECURSIVE RStrip(_)
RStrip(s) ==
    IF s # <<>> /\ s[Len(s)] \in Whitespace
    THEN RStrip(SubSeq(s, 1, Len(s) - 1))
    ELSE s

Strip(s) == RStrip(LStrip(s))

\* sep in s, for a one-character sep
Contains(s, sep) == \E n \in 1..Len(s) : s[n] = sep

\* s.find(sep) + 1, for a one-character sep that occurs in s
Find(s, sep) ==
    CHOOSE n \in 1..Len(s) : s[n] = sep /\ \A m \in 1..(n - 1) : s[m] # sep

\* s.split(sep, maxsplit) as a list
RECURSIVE SplitMax(_, _, _)
SplitMax(s, sep, maxsplit) ==
    IF maxsplit = 0 \/ ~Contains(s, sep) THEN <<s>>
    ELSE LET n == Find(s, sep)
         IN <<SubSeq(s, 1, n - 1)>>
                \o SplitMax(SubSeq(s, n + 1, Len(s)), sep, maxsplit - 1)

\* s.split(sep)
Split(s, sep) == SplitMax(s, sep, Len(s))

\* sep.join(parts)
RECURSIVE Join(_, _)
Join(parts, sep) ==
    IF parts = <<>> THEN <<>>
    ELSE IF Len(parts) = 1 THEN parts[1]
    ELSE parts[1] \o sep \o Join(Tail(parts), sep)

StartsWith(s, prefix) ==
    Len(prefix) <= Len(s) /\ SubSeq(s, 1, Len(prefix)) = prefix

EndsWith(s, suffix) ==
    Len(suffix) <= Len(s)
        /\ SubSeq(s, Len(s) - Len(suffix) + 1, Len(s)) = suffix

\* The cased characters of the model (no capital sigma: its lowercase
\* depends on its place in the word)
UpperChars == Str("ABCDEFGHIJKLMNOPQRSTUVWXYZΆΈΉΊΌΎΏΑΒΓΔΕΖΗΘΙΚΛΜΝΞΟΠΡΤΥΦΧΨΩ")
LowerChars == Str("abcdefghijklmnopqrstuvwxyzάέήίόύώαβγδεζηθικλμνξοπρτυφχψω")

LowerChar(ch) ==
    IF Contains(UpperChars, ch) THEN LowerChars[Find(UpperChars, ch)] ELSE ch

\* s.lower()
Lower(s) == [n \in 1..Len(s) |-> LowerChar(s[n])]

\* re.search(r'\d', s) is not None
HasDigit(s) == \E n \in 1..Len(s) : s[n] \in Range(Str("0123456789"))

-----------------------------------------------------------------------------
(* Python dict: insertion ordered, distinct keys.                          *)

Keys(m) == {m[n].key : n \in 1..Len(m)}

Has(m, k) == k \in Keys(m)

Get(m, k) == m[CHOOSE n \in 1..Len(m) : m[n].key = k].val

\* m[k] = v: an existing key keeps its place, a new key goes last
Put(m, k, v) ==
    IF Has(m, k)
    THEN [n \in 1..Len(m) |->
              IF m[n].key = k THEN [key |-> k, val |-> v] ELSE m[n]]
    ELSE Append(m, [key |-> k, val |-> v])

\* sequences over S of length at most n
SeqsUpTo(S, n) == UNION {[1..m -> S] : m \in 0..n}

-----------------------------------------------------------------------------
(* inflections.py: the inflection aggregator.                              *)

INFLECTED ==
    {Str("ADJ"), Str("DET"), Str("NOUN"), Str("NUM"), Str("PRON"),
     Str("VERB"), Str("PROPN"), Str("ADV"), Str("AUX")}
NOT_INFLECTED == {Str("CCONJ"), Str("PART"), Str("SCONJ"), Str("ADP")}

\* Table entries of the three shapes the code builds.
Inflected(p, word, annotations) ==
    [pos |-> p, inflections |-> <<[key |-> word, val |-> annotations]>>]
Contraction(p, annotations) == [pos |-> p, annotations |-> annotations]
Bare(p) == [pos |-> p]

HasInflections(entry) == "inflections" \in DOMAIN entry

\* store_in with the non-inflected entry keyed by the lemma instead of the
\* surface form.
store_in_keyed_by_lemma(infl, word, lem, p, ann) ==
    LET annotations == Split(ann, Ch("|"))
    IN IF ~Has(infl, lem)
       THEN IF Contains(p, Ch("+"))
            THEN Put(infl, lem, Contraction(p, annotations))
            ELSE IF p \in INFLECTED
                 THEN Put(infl, lem, Inflected(p, word, annotations))
                 ELSE Put(infl, lem, Bare(p))
       ELSE IF p \in INFLECTED
            THEN IF HasInflections(Get(infl, lem))
                 THEN Put(infl, lem,
                          [Get(infl, lem) EXCEPT
                               !.inflections = Put(@, word, annotations)])
                 ELSE Put(infl, lem, Inflected(p, word, annotations))
            ELSE infl

\* store_in whose except branch keeps the entry it found.
store_in_keeping_entry(infl, word, lem, p, ann) ==
    LET annotations == Split(ann, Ch("|"))
    IN IF ~Has(infl, lem)
       THEN IF Contains(p, Ch("+"))
            THEN Put(infl, word, Contraction(p, annotations))
            ELSE IF p \in INFLECTED
                 THEN Put(infl, lem, Inflected(p, word, annotations))
                 ELSE Put(infl, word, Bare(p))
       ELSE IF p \in INFLECTED /\ HasInflections(Get(infl, lem))
            THEN Put(infl, lem,
                     [Get(infl, lem) EXCEPT
                          !.inflections = Put(@, word, annotations)])
            ELSE infl

\* store_in(inflections, word, lemma, pos, ann): the updated table.  The
\* try/except of the else branch catches the KeyError of an entry without
\* an 'inflections' map.
store_in(infl, word, lem, p, ann) ==
    LET annotations == Split(ann, Ch("|"))
    IN IF ~Has(infl, lem)
       THEN IF Contains(p, Ch("+"))
            THEN Put(infl, word, Contraction(p, annotations))
            ELSE IF p \in INFLECTED
                 THEN Put(infl, lem, Inflected(p, word, annotations))
                 ELSE Put(infl, word, Bare(p))
       ELSE IF p \in INFLECTED
            THEN IF HasInflections(Get(infl, lem))
                 THEN Put(infl, lem,
                          [Get(infl, lem) EXCEPT
                               !.inflections = Put(@, word, annotations)])
                 ELSE Put(infl, lem, Inflected(p, word, annotations))
            ELSE infl

\* range(2) of update_contraction: the parts of a contraction
ContractionParts == 2

\* The for loop of update_contraction from its j-th round on; idx is the
\* code's i.  lines[i] past the end raises IndexError, and unpacking more
\* than 5 fields raises ValueError.
RECURSIVE ContractionLoop(_, _, _, _, _)
ContractionLoop(ls, idx, j, ps, anns) ==
    IF j = ContractionParts \/ idx >= Len(ls)
    THEN [exc |-> "", pos |-> Join(ps, Str("+")), ann |-> Join(anns, Str("|"))]
    ELSE IF idx + 1 >= Len(ls)
    THEN [exc |-> "IndexError", pos |-> <<>>, ann |-> <<>>]
    ELSE LET line == Strip(ls[idx + 2])
             info == Split(line, Ch("\t"))
         IN IF line = <<>> \/ Len(info) < 5
            THEN ContractionLoop(ls, idx + 1, j + 1, ps, anns)
            ELSE IF Len(info) > 5
            THEN [exc |-> "ValueError", pos |-> <<>>, ann |-> <<>>]
            ELSE ContractionLoop(ls, idx + 1, j + 1, Append(ps, info[3]),
                     IF info[5] # Str("_") THEN Append(anns, info[5]) ELSE anns)

\* update_contraction(lines, i): [exc, pos, ann], exc the exception raised
update_contraction(ls, idx) == ContractionLoop(ls, idx, 0, <<>>, <<>>)

\* lemma == "_" or pos == "_"
IsContraction(info) == info[2] = Str("_") \/ info[3] = Str("_")

\* update(inflections, info, lines, i): [exc, inflections]
update(infl, info, ls, idx) ==
    IF IsContraction(info)
    THEN LET r == update_contraction(ls, idx)
         IN IF r.exc # ""
            THEN [exc |-> r.exc, inflections |-> infl]
            ELSE [exc |-> "",
                  inflections |-> store_in(infl, info[1], info[2], r.pos, r.ann)]
    ELSE [exc |-> "",
          inflections |-> store_in(infl, info[1], info[2], info[3], info[5])]

\* lines[i].strip().split('\t') of get_inflections
Tabs(line) == Split(Strip(line), Ch("\t"))

\* Lines of a tagged file: each is a line from_conllu writes (the last one
\* for a raw line of three columns: ID, form, lemma).
TaggedLines ==
    { Str("που\tπου\tPRON\tPRON\tCase=Nom|PronType=Rel\n"),
      Str("που\tπου\tSCONJ\tSCONJ\t_\n"),
      Str("που\tόπου\tSCONJ\tSCONJ\t_\n"),
      Str("κι\tκαι\tCCONJ\tCCONJ\t_\n"),
      Str("και\tκαι\tCCONJ\tCCONJ\t_\n"),
      Str("στο\t_\t_\t_\t_\n"),
      Str("σε\tσε\tADP\tADP\t_\n"),
      Str("το\tο\tDET\tDET\tCase=Acc|Gender=Neut\n"),
      Str("ο\tο\tDET\tDET\tCase=Nom|Gender=Masc\n"),
      Str("σε\t\n") }

NoContraction == [i |-> -1, exc |-> "", pos |-> <<>>, ann |-> <<>>]

Unassigned == [none |-> TRUE, tag |-> <<>>]

IdleNorm == corpus = <<>> /\ c = 0 /\ txt = <<>> /\ kept = <<>>
IdleAgg ==
    lines = <<>> /\ i = 0 /\ inflections = <<>> /\ contraction = NoContraction
IdleStem ==
    /\ lemma = <<>> /\ words = <<>> /\ pos = <<>> /\ stem = <<>>
    /\ class_tag = Unassigned
IdleLex == dict = <<>> /\ d = 0 /\ lexicon = <<>> /\ written = <<>>

\* get_inflections after readlines()
InitAgg ==
    /\ pc = "while"
    /\ lines \in SeqsUpTo(TaggedLines, MaxLines)
    /\ i = 0
    /\ inflections = <<>>
    /\ contraction = NoContraction
    /\ IdleNorm /\ IdleStem /\ IdleLex

\* while i < len(lines)
While ==
    /\ pc = "while"
    /\ pc' = IF i < Len(lines) THEN "body" ELSE "to_json"
    /\ UNCHANGED <<aggVars, normVars, stemVars, lexVars>>

\* if len(tabs) != 5: continue
Continue ==
    /\ pc = "body"
    /\ Len(Tabs(lines[i + 1])) # 5
    /\ pc' = "while"
    /\ UNCHANGED <<aggVars, normVars, stemVars, lexVars>>

\* inflections = update(inflections, tabs, lines, i); i += 1
Update ==
    /\ pc = "body"
    /\ Len(Tabs(lines[i + 1])) = 5
    /\ LET tabs == Tabs(lines[i + 1])
           r == update(inflections, tabs, lines, i)
       IN /\ contraction' =
                 IF IsContraction(tabs)
                 THEN [i |-> i] @@ update_contraction(lines, i)
                 ELSE contraction
          /\ IF r.exc # ""
             THEN pc' = r.exc /\ UNCHANGED <<i, inflections>>
             ELSE /\ inflections' = r.inflections
                  /\ i' = i + 1
                  /\ pc' = "while"
    /\ UNCHANGED <<lines, normVars, stemVars, lexVars>>

\* return to_json(inflections, "inflections.json", filepath)
ToJson ==
    /\ pc = "to_json"
    /\ pc' = "saved"
    /\ UNCHANGED <<aggVars, normVars, stemVars, lexVars>>

NextAgg == While \/ Continue \/ Update \/ ToJson

Spec == InitAgg /\ [][NextAgg]_vars

-----------------------------------------------------------------------------
(* Claims about the aggregator, checked under Spec.                        *)

Malformed(line) == Len(Tabs(line)) # 5

\* The record store_in processed last: line i - 1 of the code, once i > 0.
LastInfo == Tabs(lines[i])
LastWord == LastInfo[1]
LastLemma == LastInfo[2]
LastPos == IF IsContraction(LastInfo) THEN contraction.pos ELSE LastInfo[3]
LastAnn == IF IsContraction(LastInfo) THEN contraction.ann ELSE LastInfo[5]

\* The record the body of the loop is about to process, and what it
\* resolves to in the next state.
CurInfo == Tabs(lines[i + 1])
Stores == pc = "body" /\ ~Malformed(lines[i + 1]) /\ pc' = "while"
StoredPos == IF IsContraction(CurInfo) THEN contraction'.pos ELSE CurInfo[3]
StoredAnn == IF IsContraction(CurInfo) THEN contraction'.ann ELSE CurInfo[5]

\* C1: a malformed line (not exactly 5 tab-separated fields) is skipped:
\* the step of the loop body that meets it advances the line index past it,
\* so that the pass goes on with the lines after it and terminates.
C1_MalformedLineIsPassed ==
    [][(pc = "body" /\ Malformed(lines[i + 1])) => i' = i + 1]_vars

\* The POS fields of the well-formed records ls[from..to] (0-based)
RECURSIVE PosFields(_, _, _)
PosFields(ls, from, to) ==
    IF from > to THEN <<>>
    ELSE <<Tabs(ls[from + 1])[3]>> \o PosFields(ls, from + 1, to)

\* The feature strings other than "_" of the records ls[from..to] (0-based)
RECURSIVE FeatureFields(_, _, _)
FeatureFields(ls, from, to) ==
    IF from > to THEN <<>>
    ELSE (IF Tabs(ls[from + 1])[5] # Str("_")
          THEN <<Tabs(ls[from + 1])[5]>> ELSE <<>>)
             \o FeatureFields(ls, from + 1, to)

Min(a, b) == IF a <= b THEN a ELSE b

\* C3: update_contraction for the contraction at index k of n records
\* raises no error, also when fewer than 2 records follow, and returns the
\* POS fields of the records k+1 .. min(k+2, n-1) joined with "+" and their
\* feature strings other than "_" joined with "|".
C3_ContractionResolved ==
    contraction.i >= 0 =>
        LET k == contraction.i
            last == Min(k + 2, Len(lines) - 1)
        IN /\ contraction.exc = ""
           /\ (\A m \in (k + 1)..last : ~Malformed(lines[m + 1])) =>
                  /\ contraction.pos =
                         Join(PosFields(lines, k + 1, last), Str("+"))
                  /\ contraction.ann =
                         Join(FeatureFields(lines, k + 1, last), Str("|"))

\* C4 as claimed: after store_in processed a record whose resolved POS is
\* not in INFLECTED, the table has an entry keyed by the record's surface
\* form, with the record's POS and no inflections map.
C4_AsClaimed ==
    (i > 0 /\ LastPos \notin INFLECTED) =>
        /\ Has(inflections, LastWord)
        /\ Get(inflections, LastWord).pos = LastPos
        /\ ~HasInflections(Get(inflections, LastWord))

\* C4 as amended: store_in, given a record whose resolved POS is not in
\* INFLECTED, creates the entry keyed by the surface form (the record's POS,
\* no inflections map) when the record's lemma is not yet a key of the table,
\* and leaves the table unchanged when the lemma is already a key.
C4_StoreNonGrouped ==
    [][(Stores /\ StoredPos \notin INFLECTED) =>
           IF Has(inflections, CurInfo[2])
           THEN inflections' = inflections
           ELSE /\ Has(inflections', CurInfo[1])
                /\ Get(inflections', CurInfo[1]).pos = StoredPos
                /\ ~HasInflections(Get(inflections', CurInfo[1]))]_vars

\* C4 witness: a non-inflected record whose lemma was not a key (the first
\* record of the file) has been stored under its surface form, which is not
\* its lemma.
C4_Witness ==
    /\ i = 1
    /\ LastPos \notin INFLECTED
    /\ LastWord # LastLemma
    /\ Keys(inflections) = {LastWord}

\* C8: storing a record with an INFLECTED POS whose lemma is the key of an
\* entry without inflections map replaces that entry by
\* {pos, inflections: {word: features}} and changes no other key.
C8_CollisionOverwrites ==
    [][(/\ Stores
        /\ StoredPos \in INFLECTED
        /\ Has(inflections, CurInfo[2])
        /\ ~HasInflections(Get(inflections, CurInfo[2]))) =>
           /\ Keys(inflections') = Keys(inflections)
           /\ Get(inflections', CurInfo[2]) =
                  Inflected(StoredPos, CurInfo[1], Split(StoredAnn, Ch("|")))
           /\ \A k \in Keys(inflections) \ {CurInfo[2]} :
                  Get(inflections', k) = Get(inflections, k)]_vars

\* C8 witness: the first record left a bare entry, the second one is an
\* inflected record with that key as its lemma, and it has been stored.
C8_Witness ==
    /\ i = 2
    /\ Tabs(lines[1])[3] \in NOT_INFLECTED
    /\ Tabs(lines[1])[1] = LastLemma
    /\ LastPos \in INFLECTED
    /\ HasInflections(Get(inflections, LastLemma))

\* The records processed so far that store_in groups under their lemma
\* (0-based indices): a contraction resolves to a POS that is not INFLECTED.
InflectedRecords ==
    {m \in 0..(i - 1) :
         /\ ~Malformed(lines[m + 1])
         /\ ~IsContraction(Tabs(lines[m + 1]))
         /\ Tabs(lines[m + 1])[3] \in INFLECTED}

\* The table has the surface form of record m in the inflections map at
\* the key of its lemma
Recorded(m) ==
    LET word == Tabs(lines[m + 1])[1]
        lem == Tabs(lines[m + 1])[2]
    IN /\ Has(inflections, lem)
       /\ HasInflections(Get(inflections, lem))
       /\ Has(Get(inflections, lem).inflections, word)

\* C11: at every point of the pass, and so in the final table, the entry at
\* the lemma of every processed record with an INFLECTED POS has an
\* inflections map that contains the record's surface form: no later record
\* of any kind removes it.
C11_TableComplete == \A m \in InflectedRecords : Recorded(m)

\* Record k is one that store_in keys by its surface form when it creates
\* an entry: a contraction, or a record whose POS is not INFLECTED.
KeyedBySurfaceForm(k) ==
    /\ ~Malformed(lines[k + 1])
    /\ (IsContraction(Tabs(lines[k + 1]))
           \/ Tabs(lines[k + 1])[3] \notin INFLECTED)

\* The part of C11 that holds: the surface form of an inflected record
\* stays recorded as long as no later record stored under its surface form
\* has the lemma of the inflected record as its surface form.
C11_CompleteWithoutCollision ==
    \A m \in InflectedRecords :
        (\A k \in (m + 1)..(i - 1) :
             KeyedBySurfaceForm(k) =>
                 Tabs(lines[k + 1])[1] # Tabs(lines[m + 1])[2])
            => Recorded(m)

-----------------------------------------------------------------------------
(* file.py: the corpus normalizer from_conllu.                             *)

TO_IGNORE ==
    {Str("PUNCT"), Str("Foreign=Yes"), Str("SYM"), Str("Abbr=Yes"), Str("X")}

\* parts = line.split('\t', 1)
Parts(line) == SplitMax(line, Ch("\t"), 1)

\* annotations = parts[1].split('\t')
Annotations(line) == Split(Parts(line)[2], Ch("\t"))

\* any(n in TO_IGNORE for n in annotations) or re.search(r'\d', annotations[0])
Ignored(line) ==
    \/ \E n \in 1..Len(Annotations(line)) : Annotations(line)[n] \in TO_IGNORE
    \/ HasDigit(Annotations(line)[1])

\* word + '\t'.join(to_add[1:-1]) + "\n", to_add = parts[1].split('\t', 5)
Cleaned(line) ==
    LET to_add == SplitMax(Parts(line)[2], Ch("\t"), 5)
        word == Lower(to_add[1]) \o Str("\t")
    IN word \o Join(SubSeq(to_add, 2, Len(to_add) - 1), Str("\t")) \o Str("\n")

\* Lines of a .conllu file: a comment, a sentence boundary, tokens of ten
\* columns (ID, form, lemma, UPOS, XPOS, features, head, deprel, deps,
\* misc), and a truncated line.
ConlluLines ==
    { Str("# sent_id = gdt-1\n"),
      Str("\n"),
      Str("1\tΚαι\tκαι\tCCONJ\tCCONJ\t_\t3\tcc\t_\t_\n"),
      Str("2\tΜάντσεστερ\tΜάντσεστερ\tX\tX\tForeign=Yes\t4\tnsubj\t_\t_\n"),
      Str("3\t,\t,\tPUNCT\tPUNCT\t_\t2\tpunct\t_\t_\n"),
      Str("4\t2004\t2004\tNUM\tNUM\tNumType=Card\t3\tnmod\t_\t_\n"),
      Str("5\tΟΗΕ\tΟΗΕ\tPROPN\tPROPN\tAbbr=Yes|Case=Nom\t3\tnsubj\t_\t_\n"),
      Str("6-7\tστο\t_\t_\t_\t_\t_\t_\t_\t_\n"),
      Str("8\tσε\tσε\n") }

\* from_conllu after readlines()
InitNorm ==
    /\ pc = "for"
    /\ corpus \in SeqsUpTo(ConlluLines, MaxCorpus)
    /\ c = 0
    /\ txt = <<>>
    /\ kept = <<>>
    /\ IdleAgg /\ IdleStem /\ IdleLex

\* if line.startswith("#"): continue
SkipComment ==
    /\ pc = "for"
    /\ c < Len(corpus)
    /\ StartsWith(corpus[c + 1], Str("#"))
    /\ c' = c + 1
    /\ UNCHANGED <<pc, corpus, txt, kept, aggVars, stemVars, lexVars>>

\* len(parts) > 1 is false: nothing to do for a line without a tab
SkipNoTab ==
    /\ pc = "for"
    /\ c < Len(corpus)
    /\ ~StartsWith(corpus[c + 1], Str("#"))
    /\ Len(Parts(corpus[c + 1])) <= 1
    /\ c' = c + 1
    /\ UNCHANGED <<pc, corpus, txt, kept, aggVars, stemVars, lexVars>>

\* annotations to ignore and numbers: continue
Ignore ==
    /\ pc = "for"
    /\ c < Len(corpus)
    /\ ~StartsWith(corpus[c + 1], Str("#"))
    /\ Len(Parts(corpus[c + 1])) > 1
    /\ Ignored(corpus[c + 1])
    /\ c' = c + 1
    /\ UNCHANGED <<pc, corpus, txt, kept, aggVars, stemVars, lexVars>>

\* txt.append(...)
AppendTxt ==
    /\ pc = "for"
    /\ c < Len(corpus)
    /\ ~StartsWith(corpus[c + 1], Str("#"))
    /\ Len(Parts(corpus[c + 1])) > 1
    /\ ~Ignored(corpus[c + 1])
    /\ txt' = Append(txt, Cleaned(corpus[c + 1]))
    /\ kept' = Append(kept, c)
    /\ c' = c + 1
    /\ UNCHANGED <<pc, corpus, aggVars, stemVars, lexVars>>

\* file.writelines(txt)
WriteTxt ==
    /\ pc = "for"
    /\ c = Len(corpus)
    /\ pc' = "cleaned"
    /\ UNCHANGED <<normVars, aggVars, stemVars, lexVars>>

NextNorm == SkipComment \/ SkipNoTab \/ Ignore \/ AppendTxt \/ WriteTxt

SpecNorm == InitNorm /\ [][NextNorm]_vars

\* The columns of a raw line, the trailing newline apart
Columns(line) == Split(RStrip(line), Ch("\t"))
SurfaceForm(line) == Columns(line)[2]
\* The features of the feature string (column 6) of a raw line
Features(line) ==
    IF Len(Columns(line)) >= 6
    THEN Range(Split(Columns(line)[6], Ch("|")))
    ELSE {}

\* what the claim says from_conllu excludes
MustBeExcluded(line) ==
    /\ ~StartsWith(line, Str("#"))
    /\ \/ Features(line) \cap TO_IGNORE # {}
       \/ Len(Columns(line)) >= 2 /\ HasDigit(SurfaceForm(line))

\* C2: no line whose feature string has a marker of the ignore set among its
\* features, and no line whose surface form contains a digit, is behind a
\* line of the cleaned stream, and the cleaned lines are in corpus order.
C2_NormalizerExcludes ==
    /\ Len(kept) = Len(txt)
    /\ \A n \in 1..Len(kept) :
           /\ ~MustBeExcluded(corpus[kept[n] + 1])
           /\ txt[n] = Cleaned(corpus[kept[n] + 1])
    /\ \A m, n \in 1..Len(kept) : m < n => kept[m] < kept[n]

-----------------------------------------------------------------------------
(* greek.py: stem and class inference.                                     *)

LEMMA_SUFFIXES ==
    <<Str("αω"), Str("εω"), Str("αμαι"), Str("ωμαι"), Str("ομαι"), Str("ος"),
      Str("ης"), Str("ας"), Str("μα"), Str("ιο"), Str("α"), Str("η"),
      Str("ο"), Str("ω")>>

\* The class tables are dicts: ordered [tag, endings] pairs.
VERB_CLASSES ==
    << [tag |-> Str("b1"), endings |-> <<Str("άω"), Str("έω")>>],
       [tag |-> Str("b2"), endings |-> <<Str("ώ")>>],
       [tag |-> Str("a"), endings |-> <<Str("ω")>>],
       [tag |-> Str("παθ"),
        endings |-> <<Str("άμαι"), Str("ώμαι"), Str("ομαι"), Str("ται")>>] >>

NOUN_CLASSES ==
    << [tag |-> Str("masc-ος"), endings |-> <<Str("ος")>>],
       [tag |-> Str("masc-ας"), endings |-> <<Str("ας")>>],
       [tag |-> Str("masc-ης"), endings |-> <<Str("ης"), Str("ής")>>],
       [tag |-> Str("neut-μα"), endings |-> <<Str("μα")>>],
       [tag |-> Str("neut-ι"), endings |-> <<Str("ι"), Str("ός")>>],
       [tag |-> Str("neut-ο"), endings |-> <<Str("ο"), Str("ό")>>],
       [tag |-> Str("fem-α"), endings |-> <<Str("α")>>],
       [tag |-> Str("fem-η"), endings |-> <<Str("η"), Str("ή")>>] >>

ADJ_CLASSES ==
    << [tag |-> Str("ός"),
        endings |-> <<Str("ρός"), Str("νός"), Str("ακός"), Str("ικός"),
                      Str("ός")>>],
       [tag |-> Str("ος"), endings |-> <<Str("ινος"), Str("ιος"), Str("ος")>>],
       [tag |-> Str("ής"), endings |-> <<Str("ής")>>],
       [tag |-> Str("ης"), endings |-> <<Str("ης")>>],
       [tag |-> Str("ύς"), endings |-> <<Str("ύς")>>] >>

\* "PROPN" is commented out of the dict
CLASSES ==
    (Str("ADJ") :> ADJ_CLASSES) @@ (Str("VERB") :> VERB_CLASSES)
        @@ (Str("NOUN") :> NOUN_CLASSES) @@ (Str("PRON") :> NOUN_CLASSES)

TO_STEM == {Str("ADJ"), Str("NOUN"), Str("VERB"), Str("PRON"), Str("PROPN")}

\* NFD decomposition with the combining marks (category Mn) dropped
Accented == Str("ΆΈΉΊΌΎΏάέήίόύώ")
Unaccented == Str("ΑΕΗΙΟΥΩαεηιουω")

BaseChar(ch) ==
    IF Contains(Accented, ch) THEN Unaccented[Find(Accented, ch)] ELSE ch

StripMarks(s) == [n \in 1..Len(s) |-> BaseChar(s[n])]

\* remove_tonos(word)
remove_tonos(word) == Lower(StripMarks(word))

\* min(m) and max(m) of a non-empty list of strings
RECURSIVE StrMin(_)
StrMin(m) ==
    IF Len(m) = 1 THEN m[1]
    ELSE LET rest == StrMin(Tail(m))
         IN IF StrLess(rest, m[1]) THEN rest ELSE m[1]

RECURSIVE StrMax(_)
StrMax(m) ==
    IF Len(m) = 1 THEN m[1]
    ELSE LET rest == StrMax(Tail(m))
         IN IF StrLess(m[1], rest) THEN rest ELSE m[1]

\* os.path.commonprefix(m): the first mismatch of min(m) against max(m)
RECURSIVE Mismatch(_, _, _)
Mismatch(s1, s2, n) ==
    IF n > Len(s1) THEN n
    ELSE IF s1[n] # s2[n] THEN n
    ELSE Mismatch(s1, s2, n + 1)

commonprefix(m) ==
    IF m = <<>> THEN <<>>
    ELSE LET s1 == StrMin(m)
             s2 == StrMax(m)
         IN SubSeq(s1, 1, Mismatch(s1, s2, 1) - 1)

\* len(stem) < 4 or len(words) < 2
MinStem == 4
MinWords == 2

\* the for loop over LEMMA_SUFFIXES from its n-th pattern on:
\* re.sub(f"{suffix}$", "", lemma_tonos) for the first pattern that matches
RECURSIVE StripSuffix(_, _, _)
StripSuffix(lemma_tonos, st, n) ==
    IF n > Len(LEMMA_SUFFIXES) THEN st
    ELSE IF EndsWith(lemma_tonos, LEMMA_SUFFIXES[n])
    THEN SubSeq(lemma_tonos, 1, Len(lemma_tonos) - Len(LEMMA_SUFFIXES[n]))
    ELSE StripSuffix(lemma_tonos, st, n + 1)

\* get_stem that falls back to the normalized lemma when no pattern matches
get_stem_resetting(lem, ws) ==
    LET lemma_tonos == remove_tonos(lem)
        words_tonos == [n \in 1..Len(ws) |-> remove_tonos(ws[n])]
        st == commonprefix(<<lemma_tonos>> \o words_tonos)
    IN IF Len(st) < MinStem \/ Len(ws) < MinWords
       THEN StripSuffix(lemma_tonos, lemma_tonos, 1)
       ELSE st

\* get_stem that strips the suffix whatever the common prefix
get_stem_always_stripping(lem, ws) ==
    LET lemma_tonos == remove_tonos(lem)
        words_tonos == [n \in 1..Len(ws) |-> remove_tonos(ws[n])]
        st == commonprefix(<<lemma_tonos>> \o words_tonos)
    IN StripSuffix(lemma_tonos, st, 1)

\* the for loop over LEMMA_SUFFIXES run from its last pattern back to its
\* n-th: the last matching pattern is removed
RECURSIVE StripLastSuffix(_, _, _)
StripLastSuffix(lemma_tonos, st, n) ==
    IF n = 0 THEN st
    ELSE IF EndsWith(lemma_tonos, LEMMA_SUFFIXES[n])
    THEN SubSeq(lemma_tonos, 1, Len(lemma_tonos) - Len(LEMMA_SUFFIXES[n]))
    ELSE StripLastSuffix(lemma_tonos, st, n - 1)

\* get_stem that strips the last matching pattern of the list
get_stem_last_suffix(lem, ws) ==
    LET lemma_tonos == remove_tonos(lem)
        words_tonos == [n \in 1..Len(ws) |-> remove_tonos(ws[n])]
        st == commonprefix(<<lemma_tonos>> \o words_tonos)
    IN IF Len(st) < MinStem \/ Len(ws) < MinWords
       THEN StripLastSuffix(lemma_tonos, st, Len(LEMMA_SUFFIXES))
       ELSE st

\* get_stem(lemma, words)
get_stem(lem, ws) ==
    LET lemma_tonos == remove_tonos(lem)
        words_tonos == [n \in 1..Len(ws) |-> remove_tonos(ws[n])]
        st == commonprefix(<<lemma_tonos>> \o words_tonos)
    IN IF Len(st) < MinStem \/ Len(ws) < MinWords
       THEN StripSuffix(lemma_tonos, st, 1)
       ELSE st

\* any(lemma.endswith(end) for end in endings)
AnyEnding(lem, endings) ==
    \E n \in 1..Len(endings) : EndsWith(lem, endings[n])

\* the for loop over CLASSES[pos].items() from its n-th class on
RECURSIVE FirstClass(_, _, _, _)
FirstClass(lem, p, classes, n) ==
    IF n > Len(classes)
    THEN IF p = Str("VERB") THEN [exc |-> "", none |-> FALSE, tag |-> <<>>]
         ELSE [exc |-> "", none |-> TRUE, tag |-> <<>>]
    ELSE IF AnyEnding(lem, classes[n].endings)
    THEN [exc |-> "", none |-> FALSE, tag |-> classes[n].tag]
    ELSE FirstClass(lem, p, classes, n + 1)

\* the loop going on after a match: the last matching class wins
RECURSIVE LastClass(_, _, _, _)
LastClass(lem, p, classes, n) ==
    IF n = 0
    THEN IF p = Str("VERB") THEN [exc |-> "", none |-> FALSE, tag |-> <<>>]
         ELSE [exc |-> "", none |-> TRUE, tag |-> <<>>]
    ELSE IF AnyEnding(lem, classes[n].endings)
    THEN [exc |-> "", none |-> FALSE, tag |-> classes[n].tag]
    ELSE LastClass(lem, p, classes, n - 1)

get_class_last_match(lem, p) ==
    IF p \notin DOMAIN CLASSES
    THEN [exc |-> "KeyError", none |-> TRUE, tag |-> <<>>]
    ELSE LastClass(lem, p, CLASSES[p], Len(CLASSES[p]))

\* get_class(lemma, pos): [exc, none, tag]; CLASSES[pos] raises KeyError
\* for a pos that is no key, none is the return value None.
get_class(lem, p) ==
    IF p \notin DOMAIN CLASSES
    THEN [exc |-> "KeyError", none |-> TRUE, tag |-> <<>>]
    ELSE FirstClass(lem, p, CLASSES[p], 1)

\* analyze_inflections(lemma, words, pos): [exc, stem, class_tag]
analyze_inflections(lem, ws, p) ==
    LET st == get_stem(lem, ws)
        cl == get_class(lem, p)
    IN IF cl.exc # "" THEN [exc |-> cl.exc, stem |-> <<>>, class_tag |-> <<>>]
       ELSE IF cl.none
       THEN [exc |-> "", stem |-> lem, class_tag |-> Lower(p)]
       ELSE [exc |-> "", stem |-> st,
             class_tag |-> Join(<<Lower(p), cl.tag>>, Str("-"))]

-----------------------------------------------------------------------------
(* analyze_inflections, statement by statement, on generated arguments.    *)

\* Lemmas: a stem, a prefix of StemBase of at most MaxStemLen characters,
\* followed by an ending: every ending of the class tables and of
\* LEMMA_SUFFIXES, and endings that are in none of them.
StemBase == Str("κάλαμοκ")
Stems == {SubSeq(StemBase, 1, n) : n \in 0..MaxStemLen}
ClassEndings(classes) ==
    UNION {Range(classes[n].endings) : n \in 1..Len(classes)}
OtherEndings == {Str(""), Str("υ"), Str("ως"), Str("ει")}
Endings ==
    ClassEndings(VERB_CLASSES) \cup ClassEndings(NOUN_CLASSES)
        \cup ClassEndings(ADJ_CLASSES) \cup Range(LEMMA_SUFFIXES)
        \cup OtherEndings
Lemmas == {st \o e : st \in Stems, e \in Endings} \ {<<>>}

\* Surface forms: the lemma itself, and forms that share 0, 4 and 6
\* characters with the normalized StemBase.
OtherForms == {Str("ου"), Str("καλάς"), Str("ΚΆΛΑΜΟΥ")}
Forms(lem) == {lem} \cup OtherForms

\* The keys of a dict of at most n keys out of S, in insertion order
DistinctSeqs(S, n) ==
    {ws \in SeqsUpTo(S, n) : \A a, b \in 1..Len(ws) : a # b => ws[a] # ws[b]}

\* analyze_inflections(lemma, words, pos) on entry
InitStem ==
    /\ pc = "get_stem"
    /\ lemma \in Lemmas
    /\ pos \in TO_STEM
    /\ words \in DistinctSeqs(Forms(lemma), MaxForms)
    /\ stem = <<>>
    /\ class_tag = Unassigned
    /\ IdleNorm /\ IdleAgg /\ IdleLex

\* stem = get_stem(lemma, words)
GetStem ==
    /\ pc = "get_stem"
    /\ stem' = get_stem(lemma, words)
    /\ pc' = "get_class"
    /\ UNCHANGED <<lemma, words, pos, class_tag, normVars, aggVars, lexVars>>

\* class_tag = get_class(lemma, pos)
GetClass ==
    /\ pc = "get_class"
    /\ LET r == get_class(lemma, pos)
       IN IF r.exc # ""
          THEN pc' = r.exc /\ UNCHANGED class_tag
          ELSE /\ class_tag' = [none |-> r.none, tag |-> r.tag]
               /\ pc' = "if_none"
    /\ UNCHANGED <<lemma, words, pos, stem, normVars, aggVars, lexVars>>

\* if class_tag is None: ... else: ...; return stem, class_tag
ClassTag ==
    /\ pc = "if_none"
    /\ IF class_tag.none
       THEN /\ stem' = lemma
            /\ class_tag' = [none |-> FALSE, tag |-> Lower(pos)]
       ELSE /\ stem' = stem
            /\ class_tag' =
                   [none |-> FALSE,
                    tag |-> Join(<<Lower(pos), class_tag.tag>>, Str("-"))]
    /\ pc' = "returned"
    /\ UNCHANGED <<lemma, words, pos, normVars, aggVars, lexVars>>

NextStem == GetStem \/ GetClass \/ ClassTag

SpecStem == InitStem /\ [][NextStem]_vars

\* The normalized (tonos-stripped, lowercased) lemma and forms
NormalizedAll ==
    {remove_tonos(lemma)} \cup {remove_tonos(words[n]) : n \in 1..Len(words)}

\* The longest prefix of nl that every string of the set starts with
LongestPrefixOf(nl, all) ==
    LET common == {n \in 0..Len(nl) :
                       \A w \in all : StartsWith(w, SubSeq(nl, 1, n))}
    IN SubSeq(nl, 1, CHOOSE n \in common : \A m \in common : m <= n)

\* The longest string that every normalized string starts with
LongestCommonPrefix == LongestPrefixOf(remove_tonos(lemma), NormalizedAll)

NoLemmaSuffix ==
    LET nl == remove_tonos(lemma)
    IN \A n \in 1..Len(LEMMA_SUFFIXES) : ~EndsWith(nl, LEMMA_SUFFIXES[n])

SuffixBranch == Len(LongestCommonPrefix) < 4 \/ Len(words) < 2

\* C6 as claimed: when the common prefix is shorter than 4 characters or
\* fewer than 2 forms are recorded, and the normalized lemma ends with no
\* pattern of LEMMA_SUFFIXES, get_stem returns the normalized lemma.
C6_AsClaimed ==
    (pc = "get_class" /\ NoLemmaSuffix /\ SuffixBranch) =>
        stem = remove_tonos(lemma)

\* C6 as amended: in that case get_stem returns the longest common prefix
\* of the normalized lemma and forms (the common-prefix result is kept),
\* which is the normalized lemma exactly when every normalized form starts
\* with the normalized lemma.
C6_StemWithoutSuffix ==
    (pc = "get_class" /\ NoLemmaSuffix) =>
        LET nl == remove_tonos(lemma)
            all == NormalizedAll
            lcp == LongestPrefixOf(nl, all)
        IN (Len(lcp) < 4 \/ Len(words) < 2) =>
               /\ stem = lcp
               /\ (stem = nl) <=> \A w \in all : StartsWith(w, nl)

\* C6 witness: get_stem returned a proper prefix of a normalized lemma that
\* ends with no pattern of LEMMA_SUFFIXES.
C6_Witness ==
    /\ pc = "get_class" /\ NoLemmaSuffix /\ SuffixBranch
    /\ Len(words) = 2
    /\ stem # <<>>
    /\ Len(stem) < Len(remove_tonos(lemma))

\* C7: with at least 2 recorded forms whose longest common prefix with the
\* lemma, all normalized, has at least 4 characters, get_stem returns
\* exactly that prefix.
C7_StemByCommonPrefix ==
    (pc = "get_class" /\ Len(words) >= 2) =>
        LET lcp == LongestCommonPrefix
        IN Len(lcp) >= 4 => stem = lcp

\* C7 witness: such a stem has been returned for a lemma that ends with a
\* pattern of LEMMA_SUFFIXES, where stripping that suffix gives another stem.
C7_Witness ==
    /\ pc = "get_class" /\ Len(words) >= 2 /\ Len(LongestCommonPrefix) >= 4
    /\ ~NoLemmaSuffix
    /\ stem # StripSuffix(remove_tonos(lemma), <<>>, 1)
    /\ stem # remove_tonos(lemma)

VERB == Str("VERB")
NOUN == Str("NOUN")
NounMascOs == [lem |-> Str("ος"), tag |-> Str("noun-masc-ος")]
VerbNoClass == Str("verb-")

\* The classes of the table of pos one of whose endings the lemma ends with
Matching ==
    {n \in 1..Len(CLASSES[pos]) : AnyEnding(lemma, CLASSES[pos][n].endings)}

\* C9: for ADJ, VERB, NOUN and PRON get_class returns the tag of the first
\* class in declaration order that has an ending the lemma ends with,
\* whatever later classes match; a NOUN lemma ending in "ος" is tagged
\* noun-masc-ος; a VERB lemma that matches no class gets the empty sub-tag
\* and the emitted tag "verb-".
C9_FirstMatchWins ==
    pos \in DOMAIN CLASSES =>
        /\ (pc = "if_none" /\ Matching # {}) =>
               /\ ~class_tag.none
               /\ \E n \in Matching :
                      /\ \A m \in Matching : n <= m
                      /\ class_tag.tag = CLASSES[pos][n].tag
        /\ (pc = "if_none" /\ Matching = {} /\ pos = VERB) =>
               ~class_tag.none /\ class_tag.tag = <<>>
        /\ (pc = "returned" /\ Matching = {} /\ pos = VERB) =>
               class_tag.tag = VerbNoClass
        /\ (pc = "returned" /\ pos = NOUN /\ EndsWith(lemma, NounMascOs.lem)) =>
               class_tag.tag = NounMascOs.tag

\* C9 witness: get_class returned the tag of the first of several matching
\* classes.
C9_Witness ==
    /\ pc = "if_none"
    /\ pos \in DOMAIN CLASSES
    /\ Cardinality(Matching) >= 2
    /\ class_tag.tag = VERB_CLASSES[1].tag

\* The patterns of LEMMA_SUFFIXES that the string ends with, by index
MatchingSuffixes(nl) ==
    {n \in 1..Len(LEMMA_SUFFIXES) : EndsWith(nl, LEMMA_SUFFIXES[n])}

\* The example of the claim: lemma γραφω recorded with a single form
StemOfGrafo == get_stem(Str("γραφω"), <<Str("γραφω")>>)
Graf == Str("γραφ")

\* C12: when get_stem takes the suffix branch (common prefix shorter than 4
\* characters, or fewer than 2 forms) and the normalized lemma ends with a
\* pattern of LEMMA_SUFFIXES, the first matching pattern in declaration
\* order is longer than every other matching pattern, and the stem is the
\* normalized lemma with exactly that suffix removed; lemma γραφω with a
\* single form gives γραφ.
C12_LongestSuffixStripped ==
    (pc = "get_class" /\ ~NoLemmaSuffix) =>
        LET nl == remove_tonos(lemma)
            lcp == LongestPrefixOf(nl, NormalizedAll)
            matching == MatchingSuffixes(nl)
            first == CHOOSE n \in matching : \A m \in matching : n <= m
            suffix == LEMMA_SUFFIXES[first]
        IN (Len(lcp) < 4 \/ Len(words) < 2) =>
               /\ \A m \in matching \ {first} :
                      Len(LEMMA_SUFFIXES[m]) < Len(suffix)
               /\ stem \o suffix = nl
               /\ StemOfGrafo = Graf

\* C12 witness: get_stem took the suffix branch for a lemma that ends with
\* several patterns (as αω and ω) and returned a non-empty stem.
C12_Witness ==
    /\ pc = "get_class" /\ SuffixBranch
    /\ Cardinality(MatchingSuffixes(remove_tonos(lemma))) >= 2
    /\ EndsWith(remove_tonos(lemma), LEMMA_SUFFIXES[1])
    /\ stem # <<>>

-----------------------------------------------------------------------------
(* get_greek_lexicon (greek.py) and to_txt (file.py): the lexicon emitter. *)

\* info.get("inflections", []) and [word for word in inflections]
InfoWords(info) ==
    IF HasInflections(info)
    THEN [n \in 1..Len(info.inflections) |-> info.inflections[n].key]
    ELSE <<>>

\* The body of the for loop up to the append: [exc, stem, class_tag]
LexiconRow(lem, info) ==
    IF info.pos \notin TO_STEM
    THEN [exc |-> "", stem |-> lem, class_tag |-> Lower(info.pos)]
    ELSE analyze_inflections(lem, InfoWords(info), info.pos)

\* the separator of a row and the end of a written line
TabSep == Str("\t")
Newline == Str("\n")

\* f"{lemma}\t{stem}\t{class_tag}"
Format(lem, st, tag) == Join(<<lem, st, tag>>, TabSep)

\* lines.sort() left out: the lines stay in insertion order
Sort_keeping_order(ls) == ls

\* lines.sort(): a stable sort by str comparison
RECURSIVE Insert(_, _)
Insert(sorted, x) ==
    IF sorted = <<>> THEN <<x>>
    ELSE IF StrLeq(sorted[Len(sorted)], x) THEN Append(sorted, x)
    ELSE Append(Insert(SubSeq(sorted, 1, Len(sorted) - 1), x),
                sorted[Len(sorted)])

RECURSIVE InsertAll(_, _)
InsertAll(sorted, ls) ==
    IF ls = <<>> THEN sorted ELSE InsertAll(Insert(sorted, ls[1]), Tail(ls))

Sort(ls) == InsertAll(<<>>, ls)

\* The tables handed to get_greek_lexicon are made of these entries, as
\* get_inflections stores them.
Nom == <<Str("Case=Nom")>>
Gen == <<Str("Case=Gen")>>
Ind == <<Str("Mood=Ind")>>
TableEntries ==
    { [key |-> Str("καλός"),
       val |-> [pos |-> Str("ADJ"),
                inflections |-> <<[key |-> Str("καλός"), val |-> Nom],
                                  [key |-> Str("καλή"), val |-> Nom],
                                  [key |-> Str("καλό"), val |-> Nom]>>]],
      [key |-> Str("στο"),
       val |-> Contraction(Str("ADP+DET"), <<Str("Case=Acc")>>)],
      [key |-> Str("και"), val |-> Bare(Str("CCONJ"))],
      [key |-> Str("Αθήνα"),
       val |-> Inflected(Str("PROPN"), Str("Αθήνα"), Nom)],
      [key |-> Str("φως"),
       val |-> [pos |-> Str("NOUN"),
                inflections |-> <<[key |-> Str("φως"), val |-> Nom],
                                  [key |-> Str("φωτός"), val |-> Gen]>>]],
      [key |-> Str("γράφω"),
       val |-> [pos |-> Str("VERB"),
                inflections |-> <<[key |-> Str("γράφω"), val |-> Ind],
                                  [key |-> Str("γράφει"), val |-> Ind]>>]],
      [key |-> Str("πρέπει"),
       val |-> Inflected(Str("VERB"), Str("πρέπει"), Ind)] }

\* get_greek_lexicon after from_json()
InitLex ==
    /\ pc = "for"
    /\ dict \in DistinctSeqs(TableEntries, MaxEntries)
    /\ d = 0
    /\ lexicon = <<>>
    /\ written = <<>>
    /\ IdleNorm /\ IdleAgg /\ IdleStem

\* one round of the for loop, if pos not in TO_STEM
RowPlain ==
    /\ pc = "for"
    /\ d < Len(dict)
    /\ LET lem == dict[d + 1].key
           info == dict[d + 1].val
           r == LexiconRow(lem, info)
       IN /\ info.pos \notin TO_STEM
          /\ lemma' = lem
          /\ pos' = info.pos
          /\ stem' = r.stem
          /\ class_tag' = [none |-> FALSE, tag |-> r.class_tag]
          /\ lexicon' = Append(lexicon, Format(lem, r.stem, r.class_tag))
    /\ d' = d + 1
    /\ UNCHANGED <<pc, words, dict, written, normVars, aggVars>>

\* one round of the for loop, else: analyze_inflections may raise
RowStemmed ==
    /\ pc = "for"
    /\ d < Len(dict)
    /\ LET lem == dict[d + 1].key
           info == dict[d + 1].val
           r == LexiconRow(lem, info)
       IN /\ info.pos \in TO_STEM
          /\ lemma' = lem
          /\ pos' = info.pos
          /\ words' = InfoWords(info)
          /\ IF r.exc # ""
             THEN /\ pc' = r.exc
                  /\ UNCHANGED <<stem, class_tag, lexicon, d>>
             ELSE /\ stem' = r.stem
                  /\ class_tag' = [none |-> FALSE, tag |-> r.class_tag]
                  /\ lexicon' =
                         Append(lexicon, Format(lem, r.stem, r.class_tag))
                  /\ d' = d + 1
                  /\ UNCHANGED pc
    /\ UNCHANGED <<dict, written, normVars, aggVars>>

\* return to_txt(lexicon, filepath, "lexicon.txt"): sort, then write
ToTxt ==
    /\ pc = "for"
    /\ d = Len(dict)
    /\ lexicon' = Sort(lexicon)
    /\ written' = [n \in 1..Len(lexicon) |-> lexicon'[n] \o Newline]
    /\ pc' = "saved"
    /\ UNCHANGED <<dict, d, stemVars, normVars, aggVars>>

NextLex == RowPlain \/ RowStemmed \/ ToTxt

SpecLex == InitLex /\ [][NextLex]_vars

\* The classes of the table of p one of whose endings lem ends with; none
\* if p has no table
MatchingClasses(lem, p) ==
    IF p \in DOMAIN CLASSES
    THEN {n \in 1..Len(CLASSES[p]) : AnyEnding(lem, CLASSES[p][n].endings)}
    ELSE {}

\* C5: lexicon generation does not fail, and every entry consumed whose pos
\* is in the stemmable set has a row; when its pos is not VERB and no class
\* of that pos matches the lemma (every PROPN entry), the row is
\* lemma<TAB>lemma<TAB>lowercased pos.
C5_StemmableFallback ==
    /\ pc # "KeyError"
    /\ pc = "for" =>
           /\ Len(lexicon) = d
           /\ \A n \in 1..d :
                  LET lem == dict[n].key
                      p == dict[n].val.pos
                  IN (p \in TO_STEM /\ p # VERB
                          /\ MatchingClasses(lem, p) = {}) =>
                         lexicon[n] = Format(lem, lem, Lower(p))

\* The part of C5 that holds: the rows of the entries consumed so far
C5_FallbackOfConsumed ==
    pc \in {"for", "KeyError"} =>
        /\ Len(lexicon) = d
        /\ \A n \in 1..d :
               LET lem == dict[n].key
                   p == dict[n].val.pos
               IN (p \in TO_STEM /\ p # VERB /\ MatchingClasses(lem, p) = {}) =>
                      lexicon[n] = Format(lem, lem, Lower(p))

\* The row of a table entry
RowOf(e) ==
    LET r == LexiconRow(e.key, e.val) IN Format(e.key, r.stem, r.class_tag)

\* The file written for rows appended in this order
Emitted(rows) ==
    LET sorted == Sort(rows)
    IN [n \in 1..Len(rows) |-> sorted[n] \o Newline]

\* The orders in which the entries of a table of n entries can be inserted
Orders(n) == {f \in [1..n -> 1..n] : \A a, b \in 1..n : a # b => f[a] # f[b]}

\* a line of the file without its newline, and its fields
RowWritten(n) == SubSeq(written[n], 1, Len(written[n]) - 1)
FieldsWritten(n) == Split(RowWritten(n), TabSep[1])

\* C10: the lexicon written is exactly the rows lemma<TAB>stem<TAB>class_tag
\* of the entries of the table, one line per entry, in non-decreasing order
\* of the row strings, and it is the same for every insertion order of the
\* same entries.
C10_LexiconEmission ==
    pc = "saved" =>
        LET rows == [n \in 1..Len(dict) |-> RowOf(dict[n])]
        IN /\ Len(written) = Len(dict)
           /\ \A n \in 1..Len(dict) :
                  \E k \in 1..Len(written) :
                      /\ written[k] = rows[n] \o Newline
                      /\ Len(FieldsWritten(k)) = 3
                      /\ FieldsWritten(k)[1] = dict[n].key
           /\ \A k \in 1..Len(written) :
                  \E n \in 1..Len(dict) : written[k] = rows[n] \o Newline
           /\ \A k \in 1..(Len(written) - 1) :
                  StrLeq(RowWritten(k), RowWritten(k + 1))
           /\ \A f \in Orders(Len(dict)) :
                  Emitted([n \in 1..Len(dict) |-> rows[f[n]]]) = written

\* C10 witness: a lexicon of a stemmed and a plain entry has been written in
\* another order than the entries were inserted.
C10_Witness ==
    /\ pc = "saved"
    /\ Len(dict) >= 2
    /\ \E n \in 1..Len(dict) : dict[n].val.pos \in TO_STEM
    /\ \E n \in 1..Len(dict) : dict[n].val.pos \notin TO_STEM
    /\ written[1] # RowOf(dict[1]) \o Newline

=============================================================================
